---- MODULE Spec2Model ----
(***************************************************************************)
(* Model of the mailboxvalidator crate (src/src/lib.rs): three blocking    *)
(* operations that build a GET URL, send it, classify the response by its  *)
(* status code and decode the body with a serde-derived record type.       *)
(*                                                                         *)
(* Strings that the code takes apart or glues together (the inputs, the    *)
(* URL) are sequences of tokens; JSON values and Rust values are records   *)
(* [t |-> tag, v |-> payload].  An f64 is held in tenths, so the JSON      *)
(* integer 7 read into an f64 field is the float 70 tenths = 7.0.          *)
(***************************************************************************)
EXTENDS Integers, Sequences, FiniteSets, TLC

VARIABLES pc, op, email_address, apikey, url, net, result, attempts, calls, sent

vars == <<pc, op, email_address, apikey, url, net, result, attempts, calls, sent>>

\* Number of calls made one after the other in a behaviour.
MaxCalls == 2

----------------------------------------------------------------------------
(* JSON values (serde_json::Value)                                          *)

JNull == [t |-> "null", v |-> 0]
JBool(b) == [t |-> "bool", v |-> b]
JInt(n) == [t |-> "int", v |-> n]
JFloat(tenths) == [t |-> "float", v |-> tenths]
JStr(s) == [t |-> "str", v |-> s]
JObj(f) == [t |-> "obj", v |-> f]
JArr(s) == [t |-> "arr", v |-> s]

\* A body that is not JSON at all, and a body whose transfer breaks off.
TextBody == [t |-> "text", v |-> 0]
AbortedBody == [t |-> "aborted", v |-> 0]

----------------------------------------------------------------------------
(* Rust values held by the record types                                     *)

RString(s) == [t |-> "String", v |-> s]
RNone == [t |-> "None", v |-> 0]
RSome(b) == [t |-> "Some", v |-> b]
RF64(tenths) == [t |-> "f64", v |-> tenths]
RI64(n) == [t |-> "i64", v |-> n]
RStruct(f) == [t |-> "struct", v |-> f]
DErr == [t |-> "DErr", v |-> 0]

----------------------------------------------------------------------------
(* Record types: the fields in declaration order with their Rust types      *)

Fld(n, ty) == [name |-> n, ty |-> ty]

SingleEmailValidationRecord ==
    << Fld("email_address", "String"), Fld("base_email_address", "String"),
       Fld("domain", "String"),
       Fld("is_free", "OptBool"), Fld("is_syntax", "OptBool"),
       Fld("is_domain", "OptBool"), Fld("is_smtp", "OptBool"),
       Fld("is_verified", "OptBool"), Fld("is_server_down", "OptBool"),
       Fld("is_greylisted", "OptBool"), Fld("is_disposable", "OptBool"),
       Fld("is_suppressed", "OptBool"), Fld("is_role", "OptBool"),
       Fld("is_high_risk", "OptBool"), Fld("is_catchall", "OptBool"),
       Fld("is_dmarc_enforced", "OptBool"), Fld("is_strict_spf", "OptBool"),
       Fld("website_exist", "OptBool"), Fld("status", "OptBool"),
       Fld("mailboxvalidator_score", "f64"), Fld("time_taken", "f64"),
       Fld("credits_available", "i64") >>

DisposableEmailRecord ==
    << Fld("email_address", "String"), Fld("is_disposable", "OptBool"),
       Fld("credits_available", "i64") >>

FreeEmailRecord ==
    << Fld("email_address", "String"), Fld("is_free", "OptBool"),
       Fld("credits_available", "i64") >>

ErrorRecord == << Fld("error", "ErrorRecord1") >>

ErrorRecord1 == << Fld("error_code", "i64"), Fld("error_message", "String") >>

Names(schema) == { schema[i].name : i \in 1..Len(schema) }
Pos(schema, n) == CHOOSE i \in 1..Len(schema) : schema[i].name = n

----------------------------------------------------------------------------
(* serde: Deserialize derived for the record types, read by serde_json      *)

\* A field the JSON object does not carry: an Option field is None, any
\* other field is the error "missing field".
MissingFieldDefaulted(ty) == IF ty = "OptBool" THEN RSome(FALSE) ELSE DErr

MissingField(ty) == IF ty = "OptBool" THEN RNone ELSE DErr

\* One JSON value read as a String, Option<bool>, f64 or i64.
DeserializeScalarLenient(ty, j) ==
    CASE ty = "String"  -> IF j.t = "str" THEN RString(j.v) ELSE DErr
      [] ty = "OptBool" -> IF j.t = "null" THEN RNone
                           ELSE IF j.t = "bool" THEN RSome(j.v)
                           ELSE IF j.t = "str" /\ j.v \in {"True", "False"}
                                THEN RSome(j.v = "True")
                           ELSE DErr
      [] ty = "f64"     -> IF j.t = "float" THEN RF64(j.v)
                           ELSE IF j.t = "int" THEN RF64(10 * j.v)
                           ELSE DErr
      [] ty = "i64"     -> IF j.t = "int" THEN RI64(j.v) ELSE DErr
      [] OTHER          -> DErr

DeserializeScalar(ty, j) ==
    CASE ty = "String"  -> IF j.t = "str" THEN RString(j.v) ELSE DErr
      [] ty = "OptBool" -> IF j.t = "null" THEN RNone
                           ELSE IF j.t = "bool" THEN RSome(j.v)
                           ELSE DErr
      [] ty = "f64"     -> IF j.t = "float" THEN RF64(j.v)
                           ELSE IF j.t = "int" THEN RF64(10 * j.v)
                           ELSE DErr
      [] ty = "i64"     -> IF j.t = "int" THEN RI64(j.v) ELSE DErr
      [] OTHER          -> DErr

RECURSIVE Deserialize(_, _)

\* One field: a nested struct or a scalar.
DeserializeField(ty, j) ==
    IF ty = "ErrorRecord1" THEN Deserialize(ErrorRecord1, j)
    ELSE DeserializeScalar(ty, j)

\* The values of a struct's fields, in declaration order, or DErr.  A JSON
\* object gives them by name (names the struct does not have are skipped),
\* a JSON array gives them by position and must have exactly as many
\* elements as the struct has fields; anything else is an invalid type.
FieldValues(schema, j) ==
    IF j.t = "obj"
    THEN [ i \in 1..Len(schema) |->
             IF schema[i].name \in DOMAIN j.v
             THEN DeserializeField(schema[i].ty, j.v[schema[i].name])
             ELSE MissingField(schema[i].ty) ]
    ELSE IF j.t = "arr" /\ Len(j.v) = Len(schema)
    THEN [ i \in 1..Len(schema) |-> DeserializeField(schema[i].ty, j.v[i]) ]
    ELSE << DErr >>

Build(schema, vals) ==
    IF \E i \in DOMAIN vals : vals[i] = DErr
    THEN DErr
    ELSE RStruct([ n \in Names(schema) |-> vals[Pos(schema, n)] ])

Deserialize(schema, j) == Build(schema, FieldValues(schema, j))

----------------------------------------------------------------------------
(* serde: Serialize derived for the record types, written by json!()        *)

SerializeScalar(x) ==
    CASE x.t = "String" -> JStr(x.v)
      [] x.t = "None"   -> JNull
      [] x.t = "Some"   -> JBool(x.v)
      [] x.t = "f64"    -> JFloat(x.v)
      [] x.t = "i64"    -> JInt(x.v)

SerializeField(x) ==
    IF x.t = "struct"
    THEN JObj([ n \in DOMAIN x.v |-> SerializeScalar(x.v[n]) ])
    ELSE SerializeScalar(x)

SerializeSkippingNone(r) ==
    JObj([ n \in { m \in DOMAIN r.v : r.v[m] # RNone } |-> SerializeField(r.v[n]) ])

Serialize(r) == JObj([ n \in DOMAIN r.v |-> SerializeField(r.v[n]) ])

\* serde_json::Value indexed by a key, and compared with a &str.
Index(doc, key) ==
    IF doc.t = "obj" /\ key \in DOMAIN doc.v THEN doc.v[key] ELSE JNull

EqStr(j, s) == j.t = "str" /\ j.v = s

----------------------------------------------------------------------------
(* The request                                                              *)

Ops == {"validate_email", "is_disposable_email", "is_free_email"}

Host == "https://api.mailboxvalidator.com"

PathOf(o) ==
    CASE o = "validate_email"      -> "/v2/validation/single"
      [] o = "is_disposable_email" -> "/v2/email/disposable"
      [] o = "is_free_email"       -> "/v2/email/free"

\* format!("https://...{path}?email={}&key={}&format=json&source=sdk-rust-mbv"):
\* the two arguments are pasted into the text as they are.
FormatUrl(o, email, key) ==
    << Host, PathOf(o), "?", "email", "=" >> \o email
      \o << "&", "key", "=" >> \o key
      \o << "&", "format", "=", "json", "&", "source", "=", "sdk-rust-mbv" >>

\* Position of the first c in s, 0 when there is none.
FirstPos(s, c) ==
    IF \E i \in 1..Len(s) : s[i] = c
    THEN CHOOSE i \in 1..Len(s) : s[i] = c /\ \A k \in 1..(i - 1) : s[k] # c
    ELSE 0

RECURSIVE Split(_, _)
Split(s, c) ==
    LET p == FirstPos(s, c)
    IN IF p = 0 THEN << s >>
       ELSE << SubSeq(s, 1, p - 1) >> \o Split(SubSeq(s, p + 1, Len(s)), c)

\* A query name or value as the receiver reads it: "+" stands for a space.
UrlDecode(s) == [ i \in 1..Len(s) |-> IF s[i] = "+" THEN " " ELSE s[i] ]

Param(n, val) == [name |-> n, value |-> val]

\* One "name=value" piece of the query, cut at its first "=".
ParsePair(seg) ==
    LET p == FirstPos(seg, "=")
    IN IF p = 0 THEN Param(UrlDecode(seg), << >>)
       ELSE Param(UrlDecode(SubSeq(seg, 1, p - 1)),
                  UrlDecode(SubSeq(seg, p + 1, Len(seg))))

\* The request that client.get(url).send() puts on the wire: the URL is cut
\* at the first "#" (a fragment is not sent), the query is what follows the
\* "?", its pieces are separated by "&" and empty pieces are dropped.
Request(u) ==
    LET h     == FirstPos(u, "#")
        sent_ == IF h = 0 THEN u ELSE SubSeq(u, 1, h - 1)
        query == SubSeq(sent_, 4, Len(sent_))
        segs  == SelectSeq(Split(query, "&"), LAMBDA g : g # << >>)
    IN [ host   |-> sent_[1],
         path   |-> sent_[2],
         params |-> [ i \in 1..Len(segs) |-> ParsePair(segs[i]) ] ]

----------------------------------------------------------------------------
(* The response                                                             *)

OK == 200
BAD_REQUEST == 400
UNAUTHORIZED == 401

StatusCodes == {OK, BAD_REQUEST, UNAUTHORIZED, 404, 500}

SuccessSchema(o) ==
    CASE o = "validate_email"      -> SingleEmailValidationRecord
      [] o = "is_disposable_email" -> DisposableEmailRecord
      [] o = "is_free_email"       -> FreeEmailRecord

\* The branch of the if / else if / else on res.status().
BranchErrorsOnly400(status) ==
    IF status = OK THEN "success"
    ELSE IF status = BAD_REQUEST THEN "error"
    ELSE "other"

BranchAllFailuresAreErrors(status) ==
    IF status = OK THEN "success" ELSE "error"

Branch(status) ==
    IF status = OK THEN "success"
    ELSE IF status = BAD_REQUEST \/ status = UNAUTHORIZED THEN "error"
    ELSE "other"

Ok(doc) == [t |-> "Ok", v |-> doc]
Err(kind) == [t |-> "Err", v |-> JStr(kind)]
NoResult == [t |-> "none", v |-> JNull]

\* res.json::<T>()? followed by json!(&parsed): the body is read to its end
\* and parsed as JSON, then deserialized as T and serialized again.
JsonAs(schema, body) ==
    IF body.t \in {"aborted", "text"} THEN Err("decode")
    ELSE LET parsed == Deserialize(schema, body)
         IN IF parsed = DErr THEN Err("decode") ELSE Ok(Serialize(parsed))

\* What the operation returns once send() has returned a response.
Returned(o, status, body) ==
    CASE Branch(status) = "success" -> JsonAs(SuccessSchema(o), body)
      [] Branch(status) = "error"   -> JsonAs(ErrorRecord, body)
      [] OTHER                      -> Ok(JNull)

\* What the operation does when send() returns an error: the ? operator
\* returns it to the caller.
OnSendErrorRetry(n) ==
    IF n < 2 THEN [pc |-> "sent", attempts |-> n + 1, result |-> NoResult]
    ELSE [pc |-> "done", attempts |-> n, result |-> Err("send")]

OnSendErrorSwallowed(n) == [pc |-> "done", attempts |-> n, result |-> Ok(JNull)]

OnSendError(n) == [pc |-> "done", attempts |-> n, result |-> Err("send")]

----------------------------------------------------------------------------
(* Inputs: the arguments of a call and the responses of the service         *)

Emails == { << "a", "@", "b" >>, << "a", "+", "t", "@", "b" >>,
            << "a", "&", "b" >>, << "a", "#", "b" >> }

ApiKeys == { << "K" >>, << "K", "=", "1" >> }

Without(obj, f) == JObj([ n \in DOMAIN obj.v \ {f} |-> obj.v[n] ])

With(obj, f, val) ==
    JObj([ n \in DOMAIN obj.v \cup {f} |-> IF n = f THEN val ELSE obj.v[n] ])

SampleValue(ty) ==
    CASE ty = "String"  -> JStr("test@mailinator.com")
      [] ty = "OptBool" -> JBool(TRUE)
      [] ty = "f64"     -> JFloat(25)
      [] ty = "i64"     -> JInt(100)

\* A well-formed success body of an operation.
SampleBody(o) ==
    LET schema == SuccessSchema(o)
    IN JObj([ n \in Names(schema) |-> SampleValue(schema[Pos(schema, n)].ty) ])

SampleError1 ==
    JObj([ n \in {"error_code", "error_message"} |->
             IF n = "error_code" THEN JInt(100) ELSE JStr("Invalid API key.") ])

SampleError == JObj([ n \in {"error"} |-> SampleError1 ])

EditVals ==
    { JNull, JBool(TRUE), JBool(FALSE), JInt(100), JFloat(25),
      JStr("test@mailinator.com"), JStr("False") }

\* An object with one field taken away or given another value.
Edits(obj) ==
    { Without(obj, f) : f \in DOMAIN obj.v }
      \cup { With(obj, f, val) : f \in DOMAIN obj.v, val \in EditVals }

OptionalNames(schema) ==
    { schema[i].name : i \in { k \in 1..Len(schema) : schema[k].ty = "OptBool" } }

\* The fields of an object listed by position, as a JSON array.
Positional(schema, obj) == JArr([ i \in 1..Len(schema) |-> obj.v[schema[i].name] ])

SuccessBodies(o) ==
    LET schema == SuccessSchema(o)
        base   == SampleBody(o)
        opt    == OptionalNames(schema)
        arr    == Positional(schema, base)
    IN Edits(base)
         \cup { With(base, "note", JStr("False")),
                With(base, "error", SampleError1),
                JObj([ n \in DOMAIN base.v \ opt |-> base.v[n] ]),
                JObj([ n \in DOMAIN base.v |-> IF n \in opt THEN JNull ELSE base.v[n] ]),
                arr,
                JArr(SubSeq(arr.v, 1, Len(arr.v) - 1)),
                JArr(Append(arr.v, JNull)),
                JArr([ i \in 1..Len(arr.v) |-> IF i = 1 THEN JInt(100) ELSE arr.v[i] ]) }

ErrorBodies ==
    Edits(SampleError)
      \cup { With(SampleError, "error", e) : e \in Edits(SampleError1) }
      \cup { With(SampleError, "note", JStr("False")),
             With(SampleError, "error", With(SampleError1, "note", JNull)),
             With(SampleError, "error", Positional(ErrorRecord1, SampleError1)),
             With(SampleError, "error", JArr(<< JInt(100) >>)),
             JArr(<< SampleError1 >>),
             JArr(<< Positional(ErrorRecord1, SampleError1) >>),
             JArr(<< SampleError1, JNull >>) }

Bodies ==
    UNION { SuccessBodies(o) : o \in Ops }
      \cup ErrorBodies
      \cup { JNull, JStr("Invalid API key."), TextBody, AbortedBody }

NoNet == [kind |-> "none", status |-> 0, body |-> JNull]
SendFailure == [kind |-> "failure", status |-> 0, body |-> JNull]
Response(st, b) == [kind |-> "response", status |-> st, body |-> b]

----------------------------------------------------------------------------
(* The state machine                                                        *)

Init ==
    /\ pc = "idle"
    /\ op = "none"
    /\ email_address = << >>
    /\ apikey = << >>
    /\ url = << >>
    /\ net = NoNet
    /\ result = NoResult
    /\ attempts = 0
    /\ calls = 0
    /\ sent = 0

\* An operation from its entry to the blocking send(): a new client, the
\* URL, one request.
Call(o, e, k) ==
    /\ pc' = "sent"
    /\ op' = o
    /\ email_address' = e
    /\ apikey' = k
    /\ url' = FormatUrl(o, e, k)
    /\ net' = NoNet
    /\ result' = NoResult
    /\ attempts' = 1
    /\ calls' = calls + 1
    /\ sent' = sent + 1

validate_email ==
    /\ pc \in {"idle", "done"}
    /\ calls < MaxCalls
    /\ \E e \in Emails, k \in ApiKeys : Call("validate_email", e, k)

is_disposable_email ==
    /\ pc \in {"idle", "done"}
    /\ calls < MaxCalls
    /\ \E e \in Emails, k \in ApiKeys : Call("is_disposable_email", e, k)

is_free_email ==
    /\ pc \in {"idle", "done"}
    /\ calls < MaxCalls
    /\ \E e \in Emails, k \in ApiKeys : Call("is_free_email", e, k)

\* send() returns an error.
SendFails ==
    /\ pc = "sent"
    /\ net' = SendFailure
    /\ LET r == OnSendError(attempts)
       IN /\ pc' = r.pc
          /\ attempts' = r.attempts
          /\ sent' = sent + (r.attempts - attempts)
          /\ result' = r.result
    /\ UNCHANGED <<op, email_address, apikey, url, calls>>

\* send() returns a response; the operation runs from there to its return.
ResponseReceived ==
    /\ pc = "sent"
    /\ \E st \in StatusCodes, b \in Bodies :
         /\ net' = Response(st, b)
         /\ result' = Returned(op, st, b)
    /\ pc' = "done"
    /\ UNCHANGED <<op, email_address, apikey, url, attempts, calls, sent>>

Next ==
    \/ validate_email
    \/ is_disposable_email
    \/ is_free_email
    \/ SendFails
    \/ ResponseReceived

Spec == Init /\ [][Next]_vars

----------------------------------------------------------------------------
(* Shapes of bodies and documents, stated without the deserializer          *)

\* A JSON value of the kind a field of type ty is documented to hold.
TypeOk(ty, j) ==
    CASE ty = "String"  -> j.t = "str"
      [] ty = "OptBool" -> j.t \in {"null", "bool"}
      [] ty = "f64"     -> j.t \in {"int", "float"}
      [] ty = "i64"     -> j.t = "int"
      [] OTHER          -> FALSE

\* j is a JSON object that has every required field of the schema, with
\* values of the documented kinds; it may have other fields too.
MatchesFlat(schema, j) ==
    /\ j.t = "obj"
    /\ \A i \in 1..Len(schema) :
         IF schema[i].name \in DOMAIN j.v
         THEN TypeOk(schema[i].ty, j.v[schema[i].name])
         ELSE schema[i].ty = "OptBool"

MatchesError(j) ==
    /\ j.t = "obj"
    /\ "error" \in DOMAIN j.v
    /\ MatchesFlat(ErrorRecord1, j.v["error"])

\* j lists the schema's fields by position.
ListsFlat(schema, j) ==
    /\ j.t = "arr"
    /\ Len(j.v) = Len(schema)
    /\ \A i \in 1..Len(schema) : TypeOk(schema[i].ty, j.v[i])

AcceptedError1(j) == MatchesFlat(ErrorRecord1, j) \/ ListsFlat(ErrorRecord1, j)

AcceptedError(j) ==
    \/ j.t = "obj" /\ "error" \in DOMAIN j.v /\ AcceptedError1(j.v["error"])
    \/ j.t = "arr" /\ Len(j.v) = 1 /\ AcceptedError1(j.v[1])

\* The value a document carries for a body's value of a field of type ty.
AsWritten(ty, j) == IF ty = "f64" /\ j.t = "int" THEN JFloat(10 * j.v) ELSE j

\* A document that is a success record of the operation: exactly the
\* fields of the record type.
IsSuccessRecord(o, doc) ==
    LET schema == SuccessSchema(o)
    IN /\ doc.t = "obj"
       /\ DOMAIN doc.v = Names(schema)
       /\ \A i \in 1..Len(schema) :
            LET x == doc.v[schema[i].name]
            IN CASE schema[i].ty = "String"  -> x.t = "str"
                 [] schema[i].ty = "OptBool" -> x.t \in {"null", "bool"}
                 [] schema[i].ty = "f64"     -> x.t = "float"
                 [] schema[i].ty = "i64"     -> x.t = "int"

\* A document of the shape {error: {error_code, error_message}}.
IsErrorRecord(doc) ==
    /\ doc.t = "obj"
    /\ DOMAIN doc.v = {"error"}
    /\ doc.v["error"].t = "obj"
    /\ DOMAIN doc.v["error"].v = {"error_code", "error_message"}
    /\ doc.v["error"].v["error_code"].t = "int"
    /\ doc.v["error"].v["error_message"].t = "str"

Responded == pc = "done" /\ net.kind = "response"

----------------------------------------------------------------------------
(* Claims                                                                   *)

\* C1 (as stated): whenever a call has received a response and returns a
\* value, that value is exactly one of a success record and an error record,
\* whatever the status code.
C1_ExactlyOneRecord ==
    (Responded /\ result.t = "Ok")
      => (IsSuccessRecord(op, result.v) # IsErrorRecord(result.v))

\* C1 (amended): a value returned for status 200 is a success record and no
\* error record, a value returned for status 400 or 401 is an error record
\* and no success record, and for any other status the value is the null
\* document, which is neither.
C1_RecordByStatus ==
    (Responded /\ result.t = "Ok")
      => CASE net.status = 200 ->
                IsSuccessRecord(op, result.v) /\ ~IsErrorRecord(result.v)
           [] net.status \in {400, 401} ->
                IsErrorRecord(result.v) /\ ~IsSuccessRecord(op, result.v)
           [] OTHER ->
                /\ result.v = JNull
                /\ ~IsSuccessRecord(op, result.v)
                /\ ~IsErrorRecord(result.v)

\* A 401 body that carries a full success record next to the error object
\* yields the error record only.
C1_Witness ==
    /\ Responded
    /\ op = "is_free_email"
    /\ net.status = 401
    /\ net.body = With(SampleBody("is_free_email"), "error", SampleError1)
    /\ result = Ok(SampleError)

\* C2 (as stated): a 200 response whose body matches the operation's
\* success schema returns the body itself as the document.
C2_DocumentEqualsBody ==
    (Responded /\ net.status = 200 /\ MatchesFlat(SuccessSchema(op), net.body))
      => result = Ok(net.body)

\* C2 (amended): such a response returns a document with exactly the fields
\* of the record type; a field the body carries has the body's value (an
\* integer given for a floating-point field comes back as a float), an
\* optional flag the body omits is null, fields the record type does not
\* have are dropped; and the returned document, sent as a body, is returned
\* unchanged.
C2_DocumentFromBody ==
    (Responded /\ net.status = 200 /\ MatchesFlat(SuccessSchema(op), net.body))
      => LET schema == SuccessSchema(op)
         IN /\ result.t = "Ok"
            /\ result.v.t = "obj"
            /\ DOMAIN result.v.v = Names(schema)
            /\ \A i \in 1..Len(schema) :
                 LET n == schema[i].name
                 IN result.v.v[n] =
                      IF n \in DOMAIN net.body.v
                      THEN AsWritten(schema[i].ty, net.body.v[n])
                      ELSE JNull
            /\ Returned(op, 200, result.v) = result

C2_Witness ==
    /\ Responded
    /\ op = "validate_email"
    /\ net.status = 200
    /\ net.body = Without(SampleBody("validate_email"), "is_free")
    /\ result = Ok(With(SampleBody("validate_email"), "is_free", JNull))

\* C3: a 400 or 401 response whose body matches the error schema returns,
\* for every operation, the value {error: {error_code, error_message}} with
\* the body's code and message.
C3_ServiceErrorIsValue ==
    (Responded /\ net.status \in {400, 401} /\ MatchesError(net.body))
      => result =
           Ok(JObj([ n \in {"error"} |->
                JObj([ m \in {"error_code", "error_message"} |->
                         net.body.v["error"].v[m] ]) ]))

C3_Witness ==
    /\ Responded
    /\ op = "is_disposable_email"
    /\ net.status = 401
    /\ net.body = SampleError
    /\ result = Ok(SampleError)

\* C4: a response whose status is none of 200, 400, 401 returns the null
\* document, whatever the body is.
C4_OtherStatusIsNull ==
    (Responded /\ net.status \notin {200, 400, 401}) => result = Ok(JNull)

C4_Witness ==
    /\ Responded
    /\ net.status = 500
    /\ net.body = TextBody
    /\ result = Ok(JNull)

\* C5: when send() fails the call ends with the transport failure and no
\* document, and no response was classified or decoded.
C5_SendFailureIsErr ==
    (net.kind = "failure") => (pc = "done" /\ result = Err("send"))

C5_Witness ==
    /\ pc = "done"
    /\ op = "is_disposable_email"
    /\ net = SendFailure
    /\ result.t = "Err"

\* C6 (as stated): a 200 body that is not an object matching the success
\* schema, and a 400/401 body that is not of the shape
\* {error: {error_code, error_message}}, yield a failure.
C6_MismatchFails ==
    /\ (Responded /\ net.status = 200 /\ ~MatchesFlat(SuccessSchema(op), net.body))
         => result.t = "Err"
    /\ (Responded /\ net.status \in {400, 401} /\ ~MatchesError(net.body))
         => result.t = "Err"

\* C6 (amended): the status alone chooses the record type, and the call
\* fails exactly when the body is neither a JSON object that has the
\* required fields with values of their kinds nor a JSON array that lists
\* all fields of the record type by position; so an object that lacks a
\* required field, an error-shaped object at 200 and a success-shaped object
\* at 400/401 fail, while a positional array yields a value.
C6_FailsUnlessAccepted ==
    /\ (Responded /\ net.status = 200)
         => (result.t = "Err"
               <=> ~(\/ MatchesFlat(SuccessSchema(op), net.body)
                     \/ ListsFlat(SuccessSchema(op), net.body)))
    /\ (Responded /\ net.status \in {400, 401})
         => (result.t = "Err" <=> ~AcceptedError(net.body))
    /\ (Responded /\ net.status = 200 /\ MatchesError(net.body)
          /\ ~("email_address" \in DOMAIN net.body.v))
         => result.t = "Err"

C6_Witness ==
    /\ Responded
    /\ op = "validate_email"
    /\ net.status = 200
    /\ net.body = Without(SampleBody("validate_email"), "credits_available")
    /\ result = Err("decode")

\* C7 (as stated): the request an operation sends goes to the operation's
\* path and its query is exactly email = email_address, key = api_key,
\* format = json, source = sdk-rust-mbv, as the receiver reads it.
C7_QueryCarriesArguments ==
    (pc \in {"sent", "done"})
      => /\ Request(url).path = PathOf(op)
         /\ Request(url).params =
              << Param(<< "email" >>, email_address),
                 Param(<< "key" >>, apikey),
                 Param(<< "format" >>, << "json" >>),
                 Param(<< "source" >>, << "sdk-rust-mbv" >>) >>

\* C8: a call sends one request and returns; a failed send is not tried
\* again, so the requests sent are as many as the calls made, and between
\* calls nothing but these counts is kept.
C8_OneRequestPerCall ==
    /\ sent = calls
    /\ (pc \in {"sent", "done"}) => attempts = 1
    /\ (pc = "done") => (result # NoResult /\ net # NoNet)
    /\ (pc = "sent") => (result = NoResult /\ net = NoNet)

C8_Witness ==
    /\ pc = "done"
    /\ calls >= 2
    /\ sent = calls
    /\ net = SendFailure

\* C9 (as stated in the crate's examples): in the document returned for an
\* address that does not validate, ok_result["status"] is the string
\* "False" and ok_result["error_code"] is the empty string.
C9_DocExample ==
    (/\ Responded
     /\ op = "validate_email"
     /\ net.status = 200
     /\ result.t = "Ok"
     /\ net.body.t = "obj"
     /\ Index(net.body, "status") = JBool(FALSE))
      => /\ EqStr(Index(result.v, "status"), "False")
         /\ EqStr(Index(result.v, "error_code"), "")

\* C10: in a 200 response that otherwise matches the schema, a flag that
\* is omitted or null is null in the returned document and a flag that is
\* present keeps its boolean value.
C10_FlagsKept ==
    (Responded /\ net.status = 200 /\ MatchesFlat(SuccessSchema(op), net.body))
      => /\ result.t = "Ok"
         /\ \A n \in OptionalNames(SuccessSchema(op)) :
              Index(result.v, n) =
                IF n \in DOMAIN net.body.v /\ net.body.v[n].t = "bool"
                THEN net.body.v[n]
                ELSE JNull

C10_Witness ==
    /\ Responded
    /\ op = "is_disposable_email"
    /\ net.status = 200
    /\ net.body = Without(SampleBody("is_disposable_email"), "is_disposable")
    /\ result.t = "Ok"
    /\ Index(result.v, "is_disposable") = JNull
    /\ Index(result.v, "credits_available") = JInt(100)

====
